---------------------------- MODULE Spec2Model ----------------------------
(***************************************************************************)
(* A model of src/core/block.rs: the Block value (header, transactions,    *)
(* signature, validator, cached hash) and its operations Block::new,       *)
(* hash, header_data, sign and verify, together with the direct writes to  *)
(* the public fields that a caller of the crate can make.                  *)
(***************************************************************************)
EXTENDS Integers, Sequences, FiniteSets, TLC

VARIABLES b, op, ret

vars == <<b, op, ret>>

----------------------------------------------------------------------------
(* Bounds of the model: the private keys, the longest transaction list and *)
(* the width in bytes of a hash value (32 in the program).                 *)

NumKeys == 2

MaxTxs == 2

HashSize == 4

----------------------------------------------------------------------------
(* Option<T>: None is the empty tuple, Some(x) the one-element tuple.      *)

None == <<>>

Some(x) == <<x>>

is_none(o) == o = None

unwrap(o) == o[1]

----------------------------------------------------------------------------
(* types::hash::Hash: a fixed-width byte string with a zero sentinel.      *)

RECURSIVE to_le_bytes(_, _)
to_le_bytes(n, width) ==
    IF width = 0 THEN <<>>
    ELSE <<n % 256>> \o to_le_bytes(n \div 256, width - 1)

HashOf(n) == to_le_bytes(n, HashSize)

ZeroHash == HashOf(0)

is_zero(h) == \A i \in 1..Len(h) : h[i] = 0

from_bytes(bytes) ==
    IF Len(bytes) = HashSize THEN Some(bytes) ELSE None

----------------------------------------------------------------------------
(* Sha256: a 256-bit digest of a byte string.  The model folds the bytes   *)
(* into a checksum and widens it to the digest length; like SHA-256 on any *)
(* input a program meets, it never yields the all-zero digest.             *)

RECURSIVE Checksum(_, _, _)
Checksum(bytes, i, acc) ==
    IF i > Len(bytes) THEN acc
    ELSE Checksum(bytes, i + 1, (acc * 31 + bytes[i] + i) % 65521)

Digest(bytes) == to_le_bytes(1 + Checksum(bytes, 1, 7), HashSize)

----------------------------------------------------------------------------
(* HeaderEncoder: the five fields in declaration order, fixed-width        *)
(* little-endian integers, and a presence tag before the optional field.   *)

encode_option_hash(o) ==
    IF is_none(o) THEN <<0>> ELSE <<1>> \o unwrap(o)

encode_binary(header) ==
    to_le_bytes(header.version, 4)
        \o encode_option_hash(header.data)
        \o header.prev_block
        \o to_le_bytes(header.timestamp, 8)
        \o to_le_bytes(header.height, 4)

----------------------------------------------------------------------------
(* crypto::keypair: private keys, their public keys, sign and verify.      *)

Keys == 1..NumKeys

generate_public(key) == [owner |-> key]

key_sign(key, data) == Some([signer |-> key, msg |-> data])

key_verify(public, data, signature) ==
    /\ signature.signer = public.owner
    /\ signature.msg = data

----------------------------------------------------------------------------
(* The values the model draws from.                                        *)

Versions == {1, 2}

Datas == {None, Some(HashOf(3))}

PrevBlocks == {HashOf(1), HashOf(2)}

Timestamps == {1700000000, -1}

Heights == {0, 100}

BaseHeader ==
    [version |-> 1, data |-> None, prev_block |-> HashOf(1),
     timestamp |-> 1700000000, height |-> 0]

FieldNames == {"version", "data", "prev_block", "timestamp", "height"}

Changed(g, h) == {f \in FieldNames : g[f] # h[f]}

\* The base header and every header that differs from it in one field.
Headers ==
    {h \in [version : Versions, data : Datas, prev_block : PrevBlocks,
            timestamp : Timestamps, height : Heights] :
        Cardinality(Changed(h, BaseHeader)) <= 1}

\* Transaction records are opaque to this file.
Transactions == {"foo", "bar"}

TxLists == UNION {[1..n -> Transactions] : n \in 0..MaxTxs}

PublicKeys == {generate_public(k) : k \in Keys}

Signatures == {unwrap(key_sign(k, encode_binary(h))) : k \in Keys, h \in Headers}

GarbageHash == HashOf(65535)

----------------------------------------------------------------------------
(* Results of the calls.                                                   *)

Unit == [kind |-> "Unit", val |-> ""]

Ok == [kind |-> "Ok", val |-> ""]

Err(msg) == [kind |-> "Err", val |-> msg]

Panic(msg) == [kind |-> "Panic", val |-> msg]

HashValue(h) == [kind |-> "Hash", val |-> h]

MissingSignature == "no signature"

InvalidSignature == "Could not verify"

----------------------------------------------------------------------------
(* impl Block.  Each operation yields the block after the call and the     *)
(* value the call returns (or the panic that ends it).                     *)

\* Mutant: the cache is left at the zero sentinel (Hash::default()).
new_zero_hash(header, transactions) ==
    [self |-> Some([header |-> header,
                    transactions |-> transactions,
                    hash |-> ZeroHash,
                    signature |-> None,
                    validator |-> None]),
     ret |-> Unit]

new(header, transactions) ==
    LET fin == Digest(encode_binary(header))
        h == from_bytes(fin)
    IN  IF is_none(h)
        THEN [self |-> None, ret |-> Panic("can't convert")]
        ELSE [self |-> Some([header |-> header,
                             transactions |-> transactions,
                             hash |-> unwrap(h),
                             signature |-> None,
                             validator |-> None]),
              ret |-> Unit]

\* Mutant: the digest is recomputed on every call.
hash_always_recompute(self) ==
    LET h == Digest(encode_binary(self.header))
    IN  [self |-> [self EXCEPT !.hash = h], ret |-> HashValue(h)]

hash(self) ==
    IF is_zero(self.hash)
    THEN LET fin == Digest(encode_binary(self.header))
             h == from_bytes(fin)
         IN  IF is_none(h)
             THEN [self |-> self, ret |-> Panic("failed")]
             ELSE [self |-> [self EXCEPT !.hash = unwrap(h)],
                   ret |-> HashValue(unwrap(h))]
    ELSE [self |-> self, ret |-> HashValue(self.hash)]

\* Mutant: the height is left out of the signed bytes.
header_data_no_height(self) ==
    encode_binary([self.header EXCEPT !.height = 0])

\* Mutant: the signed bytes also cover the transaction list.
header_data_with_txs(self) ==
    encode_binary(self.header) \o <<Len(self.transactions)>>

header_data(self) == encode_binary(self.header)

\* Mutant: the cached hash is signed in place of the header bytes.
sign_cached_hash(self, key) ==
    [self |-> [self EXCEPT !.signature = key_sign(key, self.hash),
                           !.validator = Some(generate_public(key))],
     ret |-> Ok]

\* Mutant: the validator is not recorded.
sign_no_validator(self, key) ==
    [self |-> [self EXCEPT !.signature = key_sign(key, encode_binary(self.header))],
     ret |-> Ok]

sign(self, key) ==
    LET header == header_data(self)
        sig == key_sign(key, header)
    IN  IF is_none(sig)
        THEN [self |-> self, ret |-> Panic("could not sign")]
        ELSE [self |-> [self EXCEPT !.signature = Some(unwrap(sig)),
                                    !.validator = Some(generate_public(key))],
              ret |-> Ok]

\* Mutant: the signature is checked against the header bytes only, under
\* whatever key made it.
verify_any_key(self) ==
    IF is_none(self.signature)
    THEN [self |-> self, ret |-> Err("no signature")]
    ELSE IF unwrap(self.signature).msg # encode_binary(self.header)
    THEN [self |-> self, ret |-> Err("Could not verify")]
    ELSE [self |-> self, ret |-> Ok]

\* Mutant: one error message for every failure.
verify_one_error(self) ==
    IF is_none(self.signature) \/ is_none(self.validator)
    THEN [self |-> self, ret |-> Err("Could not verify")]
    ELSE IF ~key_verify(unwrap(self.validator), encode_binary(self.header),
                        unwrap(self.signature))
    THEN [self |-> self, ret |-> Err("Could not verify")]
    ELSE [self |-> self, ret |-> Ok]

\* Mutant: the call refreshes the cached hash before it checks.
verify_refresh_hash(self) ==
    LET fresh == [self EXCEPT !.hash = Digest(encode_binary(self.header))]
    IN  IF is_none(self.signature)
        THEN [self |-> fresh, ret |-> Err("no signature")]
        ELSE IF is_none(self.validator)
        THEN [self |-> fresh, ret |-> Panic("unwrap on None")]
        ELSE IF ~key_verify(unwrap(self.validator), encode_binary(self.header),
                            unwrap(self.signature))
        THEN [self |-> fresh, ret |-> Err("Could not verify")]
        ELSE [self |-> fresh, ret |-> Ok]

verify(self) ==
    IF is_none(self.signature)
    THEN [self |-> self, ret |-> Err("no signature")]
    ELSE IF is_none(self.validator)
    THEN [self |-> self, ret |-> Panic("unwrap on None")]
    ELSE LET validator == unwrap(self.validator)
             signature == unwrap(self.signature)
             res == key_verify(validator, header_data(self), signature)
         IN  IF ~res
             THEN [self |-> self, ret |-> Err("Could not verify")]
             ELSE [self |-> self, ret |-> Ok]

----------------------------------------------------------------------------
(* The state machine: one Block, the last call or field write made on it   *)
(* and what the call returned.  A panic ends the run.                      *)

Running == ret.kind # "Panic"

\* Block::new(header, transactions) for every header and transaction list.
Init ==
    \E header \in Headers, transactions \in TxLists :
        LET r == new(header, transactions)
        IN  /\ ~is_none(r.self)
            /\ b = unwrap(r.self)
            /\ op = "new"
            /\ ret = r.ret

Sign ==
    \E key \in Keys :
        LET r == sign(b, key)
        IN  /\ Running
            /\ b' = r.self
            /\ op' = "sign"
            /\ ret' = r.ret

Hash ==
    LET r == hash(b)
    IN  /\ Running
        /\ b' = r.self
        /\ op' = "hash"
        /\ ret' = r.ret

Verify ==
    LET r == verify(b)
    IN  /\ Running
        /\ b' = r.self
        /\ op' = "verify"
        /\ ret' = r.ret

\* A direct write to a public field of the block.
Write(name, self) ==
    /\ Running
    /\ self # b
    /\ b' = self
    /\ op' = name
    /\ ret' = Unit

WriteHeader(header) ==
    /\ header \in Headers
    /\ Write("set_header", [b EXCEPT !.header = header])

SetVersion == \E v \in Versions : WriteHeader([b.header EXCEPT !.version = v])

SetData == \E v \in Datas : WriteHeader([b.header EXCEPT !.data = v])

SetPrevBlock == \E v \in PrevBlocks : WriteHeader([b.header EXCEPT !.prev_block = v])

SetTimestamp == \E v \in Timestamps : WriteHeader([b.header EXCEPT !.timestamp = v])

SetHeight == \E v \in Heights : WriteHeader([b.header EXCEPT !.height = v])

SetTransactions ==
    \E v \in TxLists : Write("set_transactions", [b EXCEPT !.transactions = v])

SetSignature ==
    \E v \in {None} \cup {Some(s) : s \in Signatures} :
        Write("set_signature", [b EXCEPT !.signature = v])

SetValidator ==
    \E v \in {None} \cup {Some(p) : p \in PublicKeys} :
        Write("set_validator", [b EXCEPT !.validator = v])

SetHash ==
    \E v \in {ZeroHash, GarbageHash} : Write("set_hash", [b EXCEPT !.hash = v])

NextApi == Sign \/ Hash \/ Verify

NextPayload ==
    \/ Sign \/ Hash \/ Verify
    \/ SetTransactions \/ SetHash

Next ==
    \/ Sign \/ Hash \/ Verify
    \/ SetVersion \/ SetData \/ SetPrevBlock \/ SetTimestamp \/ SetHeight
    \/ SetSignature \/ SetValidator \/ SetHash

\* A constructed block and calls of its methods: no field is written from
\* outside.
SpecApi == Init /\ [][NextApi]_vars

\* The same, with writes to the fields the signature does not cover:
\* transactions and hash.
SpecPayload == Init /\ [][NextPayload]_vars

\* The same, with writes to the header fields, signature, validator and hash.
Spec == Init /\ [][Next]_vars

----------------------------------------------------------------------------
(* The claims.                                                             *)

\* The digest of the block's current header.
HeaderDigest(self) == Digest(encode_binary(self.header))

\* The block carries the signature and validator that sign(key) gives it
\* with the header it has now.
SignedBy(self, key) ==
    /\ self.signature = sign(self, key).self.signature
    /\ self.validator = sign(self, key).self.validator

\* The block carries the signature and validator that sign(key) gave it when
\* its header was `header`.
SignedOver(self, key, header) ==
    LET old == [self EXCEPT !.header = header]
    IN  /\ self.signature = sign(old, key).self.signature
        /\ self.validator = sign(old, key).self.validator

\* C1: a verify() that directly follows a sign(k), for any key k and any
\* block (signed before or not), returns Ok.
C1_SignThenVerify ==
    [][(op = "sign" /\ op' = "verify") => ret' = Ok]_vars

C1_Witness ==
    /\ op = "verify"
    /\ ret = Ok
    /\ \E k \in Keys : SignedBy(b, k)

\* C2: when the block carries the signature and validator of sign(k) over a
\* header that differs from the current one in a single field, verify()
\* returns an error.
C2_TamperedHeaderRejected ==
    \A k \in Keys, h \in Headers :
        (/\ op = "verify"
         /\ Cardinality(Changed(h, b.header)) = 1
         /\ SignedOver(b, k, h))
            => ret.kind = "Err"

\* The cached hash is still the digest of the header that was signed.
C2_Witness ==
    \E k \in Keys, h \in Headers :
        /\ op = "verify"
        /\ Changed(h, b.header) = {"height"}
        /\ SignedOver(b, k, h)
        /\ b.hash = Digest(encode_binary(h))
        /\ b.hash # HeaderDigest(b)
        /\ ret.kind = "Err"

\* C3: with the signature of sign(A) over the current header, verify() fails
\* with InvalidSignature when validator is the public key of another key B,
\* and returns Ok when validator is A's public key.
C3_WrongKeyRejected ==
    \A A \in Keys :
        (op = "verify" /\ b.signature = sign(b, A).self.signature)
            => /\ \A B \in Keys \ {A} :
                    b.validator = Some(generate_public(B))
                        => ret = Err(InvalidSignature)
               /\ b.validator = sign(b, A).self.validator => ret = Ok

C3_Witness ==
    \E A \in Keys, B \in Keys :
        /\ A # B
        /\ op = "verify"
        /\ b.signature = sign(b, A).self.signature
        /\ b.validator = Some(generate_public(B))
        /\ ret = Err(InvalidSignature)

\* C4: verify() on a block without a signature returns the MissingSignature
\* error, which is not the InvalidSignature error, whatever the other fields.
C4_MissingSignature ==
    (op = "verify" /\ is_none(b.signature))
        => /\ ret = Err(MissingSignature)
           /\ ret # Err(InvalidSignature)

C4_Witness ==
    /\ op = "verify"
    /\ is_none(b.signature)
    /\ ~is_none(b.validator)
    /\ b.hash # HeaderDigest(b)
    /\ ret = Err(MissingSignature)

\* C5: Block::new succeeds, and as long as only sign, hash() and verify are
\* called the hash field is the digest of the header and hash() returns it.
C5_HashIsHeaderDigest ==
    /\ ret.kind # "Panic"
    /\ b.hash = HeaderDigest(b)
    /\ op = "hash" => ret = HashValue(HeaderDigest(b))

C5_Witness ==
    /\ op = "hash"
    /\ ~is_none(b.signature)
    /\ ret = HashValue(HeaderDigest(b))

\* C6: as long as only sign, hash() and verify are called, validator is
\* present iff signature is: both absent after Block::new, both present
\* after a sign.
C6_ValidatorIffSignature ==
    /\ is_none(b.validator) <=> is_none(b.signature)
    /\ op = "new" => is_none(b.signature) /\ is_none(b.validator)
    /\ op = "sign" => ~is_none(b.signature) /\ ~is_none(b.validator)

C6_Witness ==
    /\ op = "sign"
    /\ ~is_none(b.signature)
    /\ ~is_none(b.validator)

\* C7: no call of sign or verify aborts: each returns Ok or an error value.
C7_NoAbort == ret.kind # "Panic"

\* C8: a write to transactions or to hash changes nothing that verify()
\* returns (Ok on a block signed over its current header), and a write to
\* transactions changes nothing that hash() returns.
C8_SignatureCoversHeaderOnly ==
    [][op' \in {"set_transactions", "set_hash"}
        => /\ verify(b').ret = verify(b).ret
           /\ (\E k \in Keys : SignedBy(b, k)) => verify(b').ret = Ok
           /\ op' = "set_transactions" => hash(b').ret = hash(b).ret]_vars

C8_Witness ==
    /\ op = "set_transactions"
    /\ \E k \in Keys : SignedBy(b, k)
    /\ b.hash = GarbageHash
    /\ verify(b).ret = Ok

\* C9: verify() leaves every field of the block as it was, and a second
\* verify() in a row returns what the first returned.
C9_VerifyIsPure ==
    [][op' = "verify" => /\ b' = b
                         /\ op = "verify" => ret' = ret]_vars

C9_Witness ==
    /\ op = "verify"
    /\ ret = Err(InvalidSignature)
    /\ b.hash # HeaderDigest(b)

\* C10: hash() with a zero cache stores and returns the digest of the
\* current header; with a non-zero cache it returns the cache and leaves the
\* block as it was, also when the cache is the digest of an earlier header.
C10_HashRecomputesOnlyWhenZero ==
    [][op' = "hash"
        => IF is_zero(b.hash)
           THEN /\ b' = [b EXCEPT !.hash = HeaderDigest(b)]
                /\ ret' = HashValue(HeaderDigest(b))
           ELSE /\ b' = b
                /\ ret' = HashValue(b.hash)]_vars

\* hash() has returned the digest of a header the block no longer has.
C10_Witness ==
    \E h \in Headers :
        /\ op = "hash"
        /\ ret = HashValue(Digest(encode_binary(h)))
        /\ h # b.header
        /\ ret # HashValue(HeaderDigest(b))

=============================================================================
